---- MODULE Spec2Model ----
(***************************************************************************)
(* Model of the Dade-Collier aircraft monitor:                             *)
(*   src/track_termination_analysis.py  (landing / takeoff classifier)     *)
(*   src/monitor_dade_collier.py        (live poll, status, alert tags)    *)
(*   src/fetch_historical_data.py       (hour-by-hour historical fetch)    *)
(*                                                                         *)
(* Units.  Latitudes, longitudes and distances are integers in 1e-4        *)
(* degree; altitudes are integers in metres.  Sample positions lie on the  *)
(* 3-4-5 ray from the airport, so that the Euclidean distance computed by  *)
(* distance_to_airport is an exact integer and every comparison is the     *)
(* one the real-number computation makes.  A timestamp is the pair         *)
(* <<date, second>>: the ISO strings of the program are fixed width, so    *)
(* their string order is the lexicographic order of the pair and the       *)
(* slice [:10] is its first component.                                     *)
(***************************************************************************)
EXTENDS Integers, Sequences, FiniteSets, TLC

VARIABLES
    prog,               \* which script of the repository is running
    pc,                 \* position in that script
    \* ---- track_termination_analysis.py
    all_data,           \* july_data + august_data
    aircraft_tracks,    \* icao -> date -> detections, in insertion order
    idx,                \* number of (icao, date) iterations done
    track,              \* the list built at lines 49-57
    continues_past,     \* the flag of lines 80-86: "unset", "True" or "False"
    potential_landings,
    potential_takeoffs,
    cur,                \* what the last loop iteration did (history)
    \* ---- monitor_dade_collier.py
    states,             \* the state vectors parse_aircraft_data is given
    aircraft,           \* the aircraft list of the run
    fetched,            \* how the request of the run ended (history)
    month,              \* the calendar month datetime.now() is in
    detection_files,    \* flight_data/dade_collier_<month>.json
    alert_files,        \* flight_data/ALERTS_<month>.json
    \* ---- fetch_historical_data.py (its all_data is the variable above)
    start,              \* [month, hour]: the start of the range
    end,                \* the hour of that month the range ends at
    hours,              \* get_hour_timestamps(start, end)
    hour_index,         \* the i of the loop of lines 130-137: hours done
    attempted,          \* the query_hour calls made: hour and outcome (history)
    historical_files,   \* historical_data/dade_collier_<month>.json
    runs                \* runs of the script completed

analysisVars == <<all_data, aircraft_tracks, idx, track, continues_past,
                  potential_landings, potential_takeoffs, cur>>
monitorVars == <<states, aircraft, fetched, month, detection_files, alert_files>>
historyVars == <<start, end, hours, hour_index, attempted, historical_files>>

vars == <<prog, pc, analysisVars, monitorVars, historyVars, runs>>

\* A value that may be None is <<>> for None and <<v>> for the value v.
None == <<>>
Some(v) == <<v>>

\* Python truthiness of a number-or-None value: None and 0 are false.
Truthy(x) == x # None /\ x[1] # 0


(***************************************************************************)
(* The monthly log files                                                   *)
(***************************************************************************)
MaxMonth == 2           \* calendar months a sequence of runs may span

NoFile == [exists |-> FALSE, data |-> <<>>]

\* if os.path.exists(filename): json.load(f) else []
LoadOrEmpty(file) == IF file.exists THEN file.data ELSE <<>>

\* data.extend(records); json.dump(data, f)
Extended_bad(file, records) == [exists |-> TRUE, data |-> records]
Extended(file, records) == [exists |-> TRUE, data |-> LoadOrEmpty(file) \o records]

NoFiles == [m \in 1..MaxMonth |-> NoFile]

\* the variables of a script that is not the one running
IdleAnalysis ==
    /\ aircraft_tracks = <<>> /\ idx = 0 /\ track = <<>>
    /\ continues_past = "unset"
    /\ potential_landings = <<>> /\ potential_takeoffs = <<>>
    /\ cur = [icao |-> "", date |-> 0, reached |-> "none"]

IdleMonitor ==
    /\ states = <<>> /\ aircraft = <<>> /\ fetched = "none" /\ month = 1
    /\ detection_files = NoFiles /\ alert_files = NoFiles

IdleHistory ==
    /\ start = [month |-> 1, hour |-> 0] /\ end = 0
    /\ hours = <<>> /\ hour_index = 0 /\ attempted = <<>>
    /\ historical_files = NoFiles

(***************************************************************************)
(* track_termination_analysis.py                                           *)
(***************************************************************************)
AIRPORT_LAT == 258575
AIRPORT_LON == -808969
NEAR_DEG == 200
HIGH_DEG == 100
LOW_ALT == 500
KM_PER_DEG == 111
MIN_POINTS == 3

RECURSIVE SqrtUpper(_, _)
SqrtUpper(x, h) == IF h * h > x THEN h ELSE SqrtUpper(x, 2 * h)

RECURSIVE SqrtSearch(_, _, _)
SqrtSearch(x, lo, hi) ==
    IF lo >= hi THEN lo
    ELSE LET mid == (lo + hi + 1) \div 2
         IN  IF mid * mid <= x THEN SqrtSearch(x, mid, hi)
                               ELSE SqrtSearch(x, lo, mid - 1)

\* x ** 0.5
Sqrt(x) == SqrtSearch(x, 0, SqrtUpper(x, 1))

distance_to_airport(lat, lon) ==
    Sqrt((lat - AIRPORT_LAT) * (lat - AIRPORT_LAT)
         + (lon - AIRPORT_LON) * (lon - AIRPORT_LON))

\* a.timestamp <= b.timestamp, as strings
TsLeq(a, b) == \/ a[1] < b[1]
               \/ a[1] = b[1] /\ a[2] <= b[2]

DateOf(ts) == ts[1]

\* list.sort(key=lambda x: x['timestamp']): a stable sort
RECURSIVE InsertByTime(_, _)
InsertByTime(s, d) ==
    IF s = <<>> THEN <<d>>
    ELSE IF TsLeq(s[Len(s)].timestamp, d.timestamp) THEN Append(s, d)
    ELSE Append(InsertByTime(SubSeq(s, 1, Len(s) - 1), d), s[Len(s)])

RECURSIVE SortFrom(_, _, _)
SortFrom(s, i, acc) ==
    IF i > Len(s) THEN acc ELSE SortFrom(s, i + 1, InsertByTime(acc, s[i]))

SortByTime(s) == SortFrom(s, 1, <<>>)

\* aircraft_tracks[d['icao24']][date].append(d), on a list of
\* [icao, date, detections] kept in the dictionaries' insertion order:
\* icao by first appearance, then date by first appearance within the icao.
AddToGroup(groups, d) ==
    LET date == DateOf(d.timestamp)
        hit  == {g \in 1..Len(groups) :
                    groups[g].icao = d.icao24 /\ groups[g].date = date}
        same == {g \in 1..Len(groups) : groups[g].icao = d.icao24}
    IN  IF hit # {}
        THEN LET g == CHOOSE x \in hit : TRUE
             IN  [groups EXCEPT ![g].detections = Append(@, d)]
        ELSE LET new == [icao |-> d.icao24, date |-> date, detections |-> <<d>>]
                 at  == IF same = {} THEN Len(groups)
                        ELSE CHOOSE x \in same : \A y \in same : y <= x
             IN  SubSeq(groups, 1, at) \o <<new>> \o SubSeq(groups, at + 1, Len(groups))

RECURSIVE GroupFrom(_, _, _)
GroupFrom(s, i, groups) ==
    IF i > Len(s) THEN groups ELSE GroupFrom(s, i + 1, AddToGroup(groups, s[i]))

\* lines 49-57
RECURSIVE BuildFrom(_, _, _)
BuildFrom(dets, i, acc) ==
    IF i > Len(dets) THEN acc
    ELSE BuildFrom(dets, i + 1,
            IF Truthy(dets[i].baroaltitude_m)
            THEN Append(acc, [time     |-> dets[i].timestamp,
                              distance |-> distance_to_airport(dets[i].latitude,
                                                               dets[i].longitude),
                              altitude |-> dets[i].baroaltitude_m[1],
                              callsign |-> dets[i].callsign])
            ELSE acc)

BuildTrack(dets) == BuildFrom(dets, 1, <<>>)

approaching(t) == t[1].distance > t[Len(t)].distance
descending(t)  == t[1].altitude > t[Len(t)].altitude
ends_near_bad(t) == t[Len(t)].distance < 5 * NEAR_DEG
ends_near(t)   == t[Len(t)].distance < NEAR_DEG
low_at_end(t)  == t[Len(t)].altitude < LOW_ALT

LandingTest(t) == approaching(t) /\ descending(t) /\ ends_near(t) /\ low_at_end(t)

\* lines 80-86: the scan with its break
RECURSIVE ScanFrom(_, _)
ScanFrom(t, i) ==
    IF i > Len(t) THEN FALSE
    ELSE IF t[i - 1].distance < NEAR_DEG /\ t[i].distance > t[i - 1].distance THEN TRUE
    ELSE ScanFrom(t, i + 1)

ContinuesPast_bad(t) == t[1].distance < NEAR_DEG /\ t[2].distance > t[1].distance
ContinuesPast(t) == ScanFrom(t, 2)

\* lines 78-88: the landing event is appended
EmitLanding_bad(t) == LandingTest(t)
EmitLanding(t) == LandingTest(t) /\ ~ContinuesPast(t)

LandingConfidence_bad(t) ==
    IF low_at_end(t) /\ t[Len(t)].distance < NEAR_DEG THEN "HIGH" ELSE "MEDIUM"
LandingConfidence(t) ==
    IF low_at_end(t) /\ t[Len(t)].distance < HIGH_DEG THEN "HIGH" ELSE "MEDIUM"

LandingEvent(icao, date, t) ==
    [icao              |-> icao,
     callsign          |-> t[1].callsign,
     date              |-> date,
     time              |-> t[Len(t)].time,
     final_altitude    |-> t[Len(t)].altitude,
     final_distance_km |-> t[Len(t)].distance * KM_PER_DEG,
     altitude_drop     |-> t[1].altitude - t[Len(t)].altitude,
     detections        |-> Len(t),
     confidence        |-> LandingConfidence(t)]

leaving(t)      == t[Len(t)].distance > t[1].distance
climbing(t)     == t[Len(t)].altitude > t[1].altitude
starts_near(t)  == t[1].distance < NEAR_DEG
low_at_start(t) == t[1].altitude < LOW_ALT

TakeoffTest_bad(t) == starts_near(t) /\ low_at_start(t)
TakeoffTest(t) == leaving(t) /\ climbing(t) /\ starts_near(t) /\ low_at_start(t)

TakeoffEvent(icao, date, t) ==
    [icao                |-> icao,
     callsign            |-> t[1].callsign,
     date                |-> date,
     time                |-> t[1].time,
     initial_altitude    |-> t[1].altitude,
     initial_distance_km |-> t[1].distance * KM_PER_DEG,
     altitude_gain       |-> t[Len(t)].altitude - t[1].altitude,
     detections          |-> Len(t),
     confidence          |-> IF low_at_start(t) /\ t[1].distance < HIGH_DEG
                             THEN "HIGH" ELSE "MEDIUM"]

\* ---- inputs of the analysis -------------------------------------------
MaxLen == 3             \* longest single-aircraft track enumerated
MaxSamples == 3         \* longest mixed-aircraft log enumerated

\* a position at 50 * k units (0.005 * k degrees) from the airport
LatAt(k) == AIRPORT_LAT + 30 * k
LonAt(k) == AIRPORT_LON + 40 * k

TrackSteps == {1, 2, 6, 10}
TrackAlts == {180, 200, 600, 900}

\* one aircraft on one day, samples already in time order with an altitude
TrackInput(n, f) ==
    [i \in 1..n |-> [icao24         |-> "a1b2c3",
                     timestamp      |-> <<1, i>>,
                     latitude       |-> LatAt(f[i][1]),
                     longitude      |-> LonAt(f[i][1]),
                     baroaltitude_m |-> Some(f[i][2]),
                     callsign       |-> "N123"]]

LogIcaos == {"a1b2c3", "ae01ff"}
LogStamps == {<<1, 1>>, <<1, 2>>, <<2, 1>>}
LogAlts == {None, Some(0), Some(300)}
LogCallsigns == <<"CS1", "CS2", "CS3", "CS4", "CS5">>

\* several aircraft and days, in any order, with null and zero altitudes
LogInput(n, f) ==
    [i \in 1..n |-> [icao24         |-> f[i][1],
                     timestamp      |-> f[i][2],
                     latitude       |-> LatAt(1),
                     longitude      |-> LonAt(1),
                     baroaltitude_m |-> f[i][3],
                     callsign       |-> LogCallsigns[((i - 1) % 5) + 1]]]

NoIteration == [icao |-> "", date |-> 0, reached |-> "none"]

InitAnalysis ==
    /\ prog = "analysis"
    /\ pc = "load"
    /\ \/ \E n \in 0..MaxLen : \E f \in [1..n -> TrackSteps \X TrackAlts] :
             all_data = TrackInput(n, f)
       \/ \E n \in 1..MaxSamples : \E f \in [1..n -> LogIcaos \X LogStamps \X LogAlts] :
             all_data = LogInput(n, f)
    /\ aircraft_tracks = <<>>
    /\ idx = 0
    /\ track = <<>>
    /\ continues_past = "unset"
    /\ potential_landings = <<>>
    /\ potential_takeoffs = <<>>
    /\ cur = NoIteration
    /\ IdleMonitor /\ IdleHistory /\ runs = 0

\* lines 12-13
SortAll ==
    /\ prog = "analysis" /\ pc = "load"
    /\ all_data' = SortByTime(all_data)
    /\ pc' = "group"
    /\ UNCHANGED <<prog, aircraft_tracks, idx, track, continues_past,
                   potential_landings, potential_takeoffs, cur>>
    /\ UNCHANGED <<monitorVars, historyVars, runs>>

\* lines 29-32
GroupTracks ==
    /\ prog = "analysis" /\ pc = "group"
    /\ aircraft_tracks' = GroupFrom(all_data, 1, <<>>)
    /\ pc' = "loop"
    /\ UNCHANGED <<prog, all_data, idx, track, continues_past,
                   potential_landings, potential_takeoffs, cur>>
    /\ UNCHANGED <<monitorVars, historyVars, runs>>

\* one iteration of the loop of lines 40-122
ProcessTrack ==
    /\ prog = "analysis" /\ pc = "loop"
    /\ idx < Len(aircraft_tracks)
    /\ LET g    == aircraft_tracks[idx + 1]
           dets == SortByTime(g.detections)
           t    == BuildTrack(dets)
       IN  /\ idx' = idx + 1
           /\ IF Len(g.detections) < MIN_POINTS
              THEN /\ cur' = [icao |-> g.icao, date |-> g.date, reached |-> "few_detections"]
                   /\ UNCHANGED <<aircraft_tracks, track, continues_past,
                                  potential_landings, potential_takeoffs>>
              ELSE /\ aircraft_tracks' = [aircraft_tracks EXCEPT ![idx + 1].detections = dets]
                   /\ track' = t
                   /\ IF Len(t) < MIN_POINTS
                      THEN /\ cur' = [icao |-> g.icao, date |-> g.date,
                                      reached |-> "few_points"]
                           /\ UNCHANGED <<continues_past, potential_landings,
                                          potential_takeoffs>>
                      ELSE /\ cur' = [icao |-> g.icao, date |-> g.date,
                                      reached |-> "classified"]
                           /\ continues_past' =
                                IF ~LandingTest(t) THEN continues_past
                                ELSE IF ContinuesPast(t) THEN "True" ELSE "False"
                           /\ potential_landings' =
                                IF EmitLanding(t)
                                THEN Append(potential_landings,
                                            LandingEvent(g.icao, g.date, t))
                                ELSE potential_landings
                           /\ potential_takeoffs' =
                                IF TakeoffTest(t)
                                THEN Append(potential_takeoffs,
                                            TakeoffEvent(g.icao, g.date, t))
                                ELSE potential_takeoffs
    /\ UNCHANGED <<prog, pc, all_data, monitorVars, historyVars, runs>>

\* the loop is exhausted; lines 124-155 only print
Report ==
    /\ prog = "analysis" /\ pc = "loop"
    /\ idx = Len(aircraft_tracks)
    /\ pc' = "done"
    /\ UNCHANGED <<prog, analysisVars, monitorVars, historyVars, runs>>

NextAnalysis == SortAll \/ GroupTracks \/ ProcessTrack \/ Report

SpecAnalysis == InitAnalysis /\ [][NextAnalysis]_vars

(***************************************************************************)
(* Properties of track_termination_analysis.py (under SpecAnalysis)        *)
(***************************************************************************)
Iterated == cur.reached # "none"

\* the detections of the (icao, date) the last iteration looked at
CurDetections == aircraft_tracks[idx].detections

\* the points the code retains for that (icao, date), in time order
CurRetained == BuildTrack(SortByTime(CurDetections))

LandingsOf(icao, date) ==
    {i \in 1..Len(potential_landings) :
        potential_landings[i].icao = icao /\ potential_landings[i].date = date}

TakeoffsOf(icao, date) ==
    {i \in 1..Len(potential_takeoffs) :
        potential_takeoffs[i].icao = icao /\ potential_takeoffs[i].date = date}

Recedes(t) ==
    \E i \in 2..Len(t) :
        t[i - 1].distance < 200 /\ t[i].distance > t[i - 1].distance

FourLanding(t) ==
    /\ t[1].distance > t[Len(t)].distance
    /\ t[1].altitude > t[Len(t)].altitude
    /\ t[Len(t)].distance < 200
    /\ t[Len(t)].altitude < 500

FourTakeoff(t) ==
    /\ t[Len(t)].distance > t[1].distance
    /\ t[Len(t)].altitude > t[1].altitude
    /\ t[1].distance < 200
    /\ t[1].altitude < 500

\* C1: for every (icao24, date) track a landing event is emitted if and
\* only if the retained points number at least 3, approaching, descending,
\* ends_near and low_at_end all hold on them, and no point inside the
\* near-zone is followed by a point further away; at most one landing
\* event is emitted per track.
C1_LandingIff ==
    Iterated =>
        LET t == CurRetained
            n == Cardinality(LandingsOf(cur.icao, cur.date))
        IN  /\ n <= 1
            /\ n = 1 <=> (Len(t) >= 3 /\ FourLanding(t) /\ ~Recedes(t))

C1_Witness ==
    /\ cur.reached = "classified"
    /\ FourLanding(track) /\ ~Recedes(track)
    /\ LandingsOf(cur.icao, cur.date) # {}

\* C2 as stated: among the tracks the analysis may be given, some track
\* qualifies as both a landing and a takeoff.
C2_BothQualify ==
    prog = "analysis" =>
        \E n \in 0..MaxLen : \E f \in [1..n -> TrackSteps \X TrackAlts] :
            LET t == BuildTrack(TrackInput(n, f))
            IN  Len(t) >= MIN_POINTS /\ EmitLanding(t) /\ TakeoffTest(t)

\* C2 as amended: the two tests are evaluated one after the other without
\* an else, but no track passes both (approaching and leaving exclude each
\* other, and so do descending and climbing): no (icao24, date) ever has a
\* landing event and a takeoff event.
C2_NeverBoth ==
    \A i \in 1..Len(potential_landings) :
        TakeoffsOf(potential_landings[i].icao, potential_landings[i].date) = {}

C2_Witness ==
    /\ cur.reached = "classified"
    /\ TakeoffsOf(cur.icao, cur.date) # {}
    /\ track[1].altitude < track[Len(track)].altitude
    /\ LandingsOf(cur.icao, cur.date) = {}

\* C3: a track in which a retained point inside the near-zone is followed
\* by a point further away yields no landing event, whatever the four
\* landing conditions are; a takeoff event is emitted exactly when the four
\* takeoff conditions hold, with or without that receding pattern.
C3_RecedeNoLanding ==
    Iterated =>
        LET t == CurRetained
        IN  /\ Recedes(t) => LandingsOf(cur.icao, cur.date) = {}
            /\ TakeoffsOf(cur.icao, cur.date) # {} <=> (Len(t) >= 3 /\ FourTakeoff(t))

C3_Witness ==
    /\ cur.reached = "classified"
    /\ Recedes(track) /\ FourLanding(track)
    /\ LandingsOf(cur.icao, cur.date) = {}

\* the sample of all_data a retained point is made from
PointOf(d) ==
    [time     |-> d.timestamp,
     distance |-> distance_to_airport(d.latitude, d.longitude),
     altitude |-> d.baroaltitude_m[1],
     callsign |-> d.callsign]

Occurrences(s, x) == Cardinality({i \in 1..Len(s) : s[i] = x})

\* C4 as stated: the list handed to the classifier for a key is exactly the
\* samples of that key with a non-null altitude (0 included), in ascending
\* timestamp order, and it is handed over as soon as there are 3 of them.
C4_NonNullRetained ==
    Iterated =>
        LET want == SelectSeq(all_data,
                        LAMBDA d : /\ d.icao24 = cur.icao
                                   /\ DateOf(d.timestamp) = cur.date
                                   /\ d.baroaltitude_m # None)
        IN  /\ cur.reached = "classified" <=> Len(want) >= 3
            /\ cur.reached = "classified" =>
                  /\ Len(track) = Len(want)
                  /\ \A i \in 1..Len(want) :
                        Occurrences(track, PointOf(want[i]))
                            = Cardinality({j \in 1..Len(want) :
                                              PointOf(want[j]) = PointOf(want[i])})
                  /\ \A i \in 2..Len(track) : TsLeq(track[i - 1].time, track[i].time)
                  /\ \A i \in LandingsOf(cur.icao, cur.date) :
                        potential_landings[i].callsign = want[1].callsign
                  /\ \A i \in TakeoffsOf(cur.icao, cur.date) :
                        potential_takeoffs[i].callsign = want[1].callsign

\* C5: an event's confidence is HIGH exactly when the boundary distance
\* (last for a landing, first for a takeoff) is below 0.01 degree, MEDIUM
\* otherwise; the boundary altitude of every event is below 500 m, so the
\* altitude conjunct of the confidence expression decides nothing.
C5_Confidence ==
    /\ \A i \in 1..Len(potential_landings) :
          LET e == potential_landings[i]
          IN  /\ e.confidence \in {"HIGH", "MEDIUM"}
              /\ e.confidence = "HIGH" <=> e.final_distance_km < 100 * 111
              /\ e.final_altitude < 500
    /\ \A i \in 1..Len(potential_takeoffs) :
          LET e == potential_takeoffs[i]
          IN  /\ e.confidence \in {"HIGH", "MEDIUM"}
              /\ e.confidence = "HIGH" <=> e.initial_distance_km < 100 * 111
              /\ e.initial_altitude < 500

C5_Witness ==
    /\ \E i \in 1..Len(potential_landings) : potential_landings[i].confidence = "MEDIUM"
    /\ pc = "done"

\* the track [(dist=0.05,alt=900),(dist=0.01,alt=200),(dist=0.03,alt=180)]
Example3 ==
    <<[time |-> <<1, 1>>, distance |-> 500, altitude |-> 900, callsign |-> "N123"],
      [time |-> <<1, 2>>, distance |-> 100, altitude |-> 200, callsign |-> "N123"],
      [time |-> <<1, 3>>, distance |-> 300, altitude |-> 180, callsign |-> "N123"]>>

Example3Classified == cur.reached = "classified" /\ track = Example3

\* C6 as stated: on that track the four landing conditions all hold and the
\* landing is suppressed by the continues_past scan.
C6_SuppressedByScan ==
    Example3Classified =>
        /\ FourLanding(track)
        /\ continues_past = "True"
        /\ potential_landings = <<>>

\* C6 as amended: on that track approaching, descending and low_at_end
\* hold but ends_near does not (0.03 is not below 0.02): no landing event
\* is emitted because the landing test fails, and the continues_past scan
\* is never run.
C6_FailsEndsNear ==
    Example3Classified =>
        /\ track[1].distance > track[3].distance
        /\ track[1].altitude > track[3].altitude
        /\ track[3].altitude < 500
        /\ ~(track[3].distance < 200)
        /\ continues_past = "unset"
        /\ potential_landings = <<>>

C6_Witness == Example3Classified /\ pc = "done"

(***************************************************************************)
(* monitor_dade_collier.py                                                 *)
(* A string is the sequence of its characters.                             *)
(***************************************************************************)
LANDING_ALTITUDE == 500
GROUND_ALTITUDE == 100
AFTER_HOURS_START == 22
AFTER_HOURS_END == 6

WATCH_CALLSIGNS == << <<"R", "P", "N">>, <<"G", "X", "A">> >>
MILITARY_PREFIXES == << <<"A", "E">> >>

UpperOf ==
    [a |-> "A", e |-> "E", g |-> "G", k |-> "K", n |-> "N", o |-> "O",
     p |-> "P", r |-> "R", u |-> "U", w |-> "W", x |-> "X"]

\* str.upper()
upper(str) ==
    [c \in 1..Len(str) |-> IF str[c] \in DOMAIN UpperOf THEN UpperOf[str[c]] ELSE str[c]]

\* str.strip()
RECURSIVE lstrip(_)
lstrip(str) ==
    IF str # <<>> /\ str[1] = " " THEN lstrip(Tail(str)) ELSE str

RECURSIVE rstrip(_)
rstrip(str) ==
    IF str # <<>> /\ str[Len(str)] = " " THEN rstrip(SubSeq(str, 1, Len(str) - 1)) ELSE str

strip(str) == rstrip(lstrip(str))

\* str.startswith(prefix)
startswith(str, prefix) ==
    Len(str) >= Len(prefix) /\ SubSeq(str, 1, Len(prefix)) = prefix

\* Python truthiness of a string-or-None value: None and '' are false.
TruthyStr(x) == x # None /\ x[1] # <<>>

\* int(x): truncation towards zero, here of num / den
TruncDiv(num, den) == IF num >= 0 THEN num \div den ELSE -((-num) \div den)

Tag(name) == [tag |-> name, entry |-> <<>>]
WatchTag(watch) == [tag |-> "WATCH_CALLSIGN", entry |-> watch]

\* lines 26-33, on the hour the Eastern clock shows when it is called
is_after_hours_bad(hour) == hour > AFTER_HOURS_START \/ hour < AFTER_HOURS_END
is_after_hours(hour) == hour >= AFTER_HOURS_START \/ hour < AFTER_HOURS_END

\* lines 41-43
RECURSIVE WatchLoop(_, _, _)
WatchLoop(callsign, w, alerts) ==
    IF w > Len(WATCH_CALLSIGNS) THEN alerts
    ELSE WatchLoop(callsign, w + 1,
            IF startswith(callsign, WATCH_CALLSIGNS[w])
            THEN Append(alerts, WatchTag(WATCH_CALLSIGNS[w]))
            ELSE alerts)

\* lines 51-53
RECURSIVE MilitaryLoop(_, _, _)
MilitaryLoop(icao24, m, alerts) ==
    IF m > Len(MILITARY_PREFIXES) THEN alerts
    ELSE MilitaryLoop(icao24, m + 1,
            IF startswith(icao24, MILITARY_PREFIXES[m])
            THEN Append(alerts, Tag("MILITARY"))
            ELSE alerts)

check_alert_conditions(a, hour) ==
    LET callsign == upper(a.callsign)
        a1 == WatchLoop(callsign, 1, <<>>)
        a2 == IF callsign = <<>> \/ callsign = <<"N", "/", "A">>
                 \/ callsign = <<"U", "N", "K", "N", "O", "W", "N">>
              THEN Append(a1, Tag("NO_CALLSIGN")) ELSE a1
        a3 == MilitaryLoop(upper(a.icao24), 1, a2)
        a4 == IF is_after_hours(hour) THEN Append(a3, Tag("AFTER_HOURS")) ELSE a3
    IN  IF a.status \in {"LOW_ALTITUDE", "VERY_LOW", "ON_GROUND"}
        THEN Append(a4, Tag("LOW_ALTITUDE")) ELSE a4

\* lines 112-119
StatusOf(on_ground, altitude_m) ==
    IF on_ground THEN "ON_GROUND"
    ELSE IF Truthy(altitude_m) /\ altitude_m[1] < GROUND_ALTITUDE THEN "VERY_LOW"
    ELSE IF Truthy(altitude_m) /\ altitude_m[1] < LANDING_ALTITUDE THEN "LOW_ALTITUDE"
    ELSE "CRUISING"

\* lines 98-126 for one state vector; `hour` is the clock reading of the
\* is_after_hours call made for it.  The fields copied through unread
\* (timestamp, latitude, longitude, velocity_ms, heading) are left out.
ParseState(st) ==
    LET base == [icao24      |-> st.icao24,
                 callsign    |-> IF TruthyStr(st.callsign) THEN strip(st.callsign[1])
                                 ELSE <<"U", "n", "k", "n", "o", "w", "n">>,
                 altitude_m  |-> st.baro_altitude,
                 altitude_ft |-> IF Truthy(st.baro_altitude)
                                 THEN Some(TruncDiv(st.baro_altitude[1] * 328084, 100000))
                                 ELSE None,
                 on_ground   |-> st.on_ground,
                 status      |-> StatusOf(st.on_ground, st.baro_altitude)]
        alerts == check_alert_conditions(base, st.hour)
    IN  [icao24      |-> base.icao24,
         callsign    |-> base.callsign,
         altitude_m  |-> base.altitude_m,
         altitude_ft |-> base.altitude_ft,
         on_ground   |-> base.on_ground,
         status      |-> base.status,
         alerts      |-> alerts,
         is_alert    |-> Len(alerts) > 0]

parse_aircraft_data(sts) == [k \in 1..Len(sts) |-> ParseState(sts[k])]

\* ---- inputs of parse_aircraft_data --------------------------------------
RawCallsigns ==
    {None,
     Some(<<>>),
     Some(<<" ", " ">>),
     Some(<<"R", "P", "N", "1", "2", " ">>),
     Some(<<" ", "r", "p", "n", "1">>),
     Some(<<"G", "x", "A", "7">>),
     Some(<<"R", "P">>),
     Some(<<"N", "/", "A">>),
     Some(<<"n", "/", "a", " ">>),
     Some(<<"U", "N", "K", "N", "O", "W", "N">>),
     Some(<<"u", "n", "k", "n", "o", "w", "n">>),
     Some(<<"A", "A", "L", "1">>)}

RawIcaos == {<<"a", "e", "0", "1">>, <<"A", "E", "1">>, <<"a", "1", "e">>, <<"e", "a", "7">>}
RawAltitudes == {None, Some(-10), Some(0), Some(50), Some(100), Some(300), Some(500), Some(900)}
ClockHours == {0, 5, 6, 12, 21, 22, 23}

InitParse ==
    /\ prog = "parse"
    /\ pc = "raw"
    /\ \E cs \in RawCallsigns, ic \in RawIcaos, og \in BOOLEAN,
          alt \in RawAltitudes, h \in ClockHours :
          states = <<[icao24 |-> ic, callsign |-> cs, on_ground |-> og,
                      baro_altitude |-> alt, hour |-> h]>>
    /\ aircraft = <<>> /\ fetched = "none" /\ month = 1
    /\ detection_files = NoFiles /\ alert_files = NoFiles
    /\ all_data = <<>>
    /\ IdleAnalysis /\ IdleHistory /\ runs = 0

\* line 85
ParseStates ==
    /\ prog = "parse" /\ pc = "raw"
    /\ aircraft' = parse_aircraft_data(states)
    /\ pc' = "parsed"
    /\ UNCHANGED <<prog, analysisVars, states, fetched, month, detection_files,
                   alert_files, historyVars, runs>>

NextParse == ParseStates

SpecParse == InitParse /\ [][NextParse]_vars

(***************************************************************************)
(* Properties of parse_aircraft_data (under SpecParse)                     *)
(***************************************************************************)
Parsed == prog = "parse" /\ pc = "parsed"

\* C7 as stated: ON_GROUND if on_ground; otherwise VERY_LOW if the altitude
\* is a number below 100; otherwise LOW_ALTITUDE if it is a number below
\* 500; otherwise CRUISING (also for a null altitude); altitude 0 and
\* negative altitudes with on_ground false are VERY_LOW.
C7_StatusByAltitude ==
    Parsed =>
        \A k \in 1..Len(aircraft) :
            LET st == states[k]
                alt == st.baro_altitude
            IN  aircraft[k].status =
                    IF st.on_ground = TRUE THEN "ON_GROUND"
                    ELSE IF alt # None /\ alt[1] < 100 THEN "VERY_LOW"
                    ELSE IF alt # None /\ alt[1] < 500 THEN "LOW_ALTITUDE"
                    ELSE "CRUISING"

\* str2 is a prefix of str1 when letter case is ignored
PrefixNoCase(str1, str2) ==
    /\ Len(str2) <= Len(str1)
    /\ \A c \in 1..Len(str2) : upper(<<str1[c]>>) = upper(<<str2[c]>>)

\* the place of a tag in the fixed order of the rules
RankOf(t) ==
    CASE t.tag = "WATCH_CALLSIGN" ->
            (CHOOSE w \in 1..Len(WATCH_CALLSIGNS) : WATCH_CALLSIGNS[w] = t.entry)
      [] t.tag = "NO_CALLSIGN"  -> Len(WATCH_CALLSIGNS) + 1
      [] t.tag = "MILITARY"     -> Len(WATCH_CALLSIGNS) + 2
      [] t.tag = "AFTER_HOURS"  -> Len(WATCH_CALLSIGNS) + 3
      [] t.tag = "LOW_ALTITUDE" -> Len(WATCH_CALLSIGNS) + 4

Has(alerts, t) == \E k \in 1..Len(alerts) : alerts[k] = t

\* C8: every rule is evaluated whatever the earlier rules found; the tags
\* come in the fixed order WATCH_CALLSIGN:<entry> (one per watch-list entry
\* that is a case-insensitive prefix of the callsign), NO_CALLSIGN (callsign
\* empty, 'N/A' or 'UNKNOWN' whatever the case), MILITARY (icao24 starts
\* with a military prefix whatever the case), AFTER_HOURS (hour >= 22 or
\* hour < 6), LOW_ALTITUDE (status LOW_ALTITUDE, VERY_LOW or ON_GROUND);
\* is_alert is true iff the list is not empty.
C8_AlertTags ==
    Parsed =>
        \A k \in 1..Len(aircraft) :
            LET a  == aircraft[k]
                al == a.alerts
                h  == states[k].hour
            IN  /\ \A w \in 1..Len(WATCH_CALLSIGNS) :
                      Has(al, WatchTag(WATCH_CALLSIGNS[w]))
                          <=> PrefixNoCase(a.callsign, WATCH_CALLSIGNS[w])
                /\ Has(al, Tag("NO_CALLSIGN"))
                      <=> \/ a.callsign = <<>>
                          \/ upper(a.callsign) = <<"N", "/", "A">>
                          \/ upper(a.callsign) = <<"U", "N", "K", "N", "O", "W", "N">>
                /\ Has(al, Tag("MILITARY"))
                      <=> \E m \in 1..Len(MILITARY_PREFIXES) :
                              PrefixNoCase(a.icao24, MILITARY_PREFIXES[m])
                /\ Has(al, Tag("AFTER_HOURS")) <=> (h >= 22 \/ h < 6)
                /\ Has(al, Tag("LOW_ALTITUDE"))
                      <=> a.status \in {"LOW_ALTITUDE", "VERY_LOW", "ON_GROUND"}
                /\ \A x \in 1..Len(al) :
                      al[x].tag \in {"WATCH_CALLSIGN", "NO_CALLSIGN", "MILITARY",
                                     "AFTER_HOURS", "LOW_ALTITUDE"}
                /\ \A x, y \in 1..Len(al) : x < y => RankOf(al[x]) < RankOf(al[y])
                /\ a.is_alert <=> al # <<>>

\* a sample whose absent callsign was defaulted, tagged by four rules at once
C8_Witness ==
    /\ Parsed
    /\ states[1].callsign = None
    /\ aircraft[1].callsign = <<"U", "n", "k", "n", "o", "w", "n">>
    /\ aircraft[1].alerts = <<Tag("NO_CALLSIGN"), Tag("MILITARY"),
                              Tag("AFTER_HOURS"), Tag("LOW_ALTITUDE")>>

(***************************************************************************)
(* The runs of monitor_dade_collier.py and of fetch_historical_data.py     *)
(***************************************************************************)
MaxRuns == 2            \* runs of one script in a row
MaxAircraft == 2        \* state vectors in one response
MaxHour == 1            \* last hour of the month a range may start or end at
HOURS_PER_MONTH == 31 * 24
SECONDS_PER_HOUR == 3600

\* the state vectors a response is made of: a military aircraft low at
\* night (alerts) and an airliner cruising at noon (no alert)
PollCatalog ==
    {[icao24 |-> <<"a", "e", "0", "1">>, callsign |-> None, on_ground |-> FALSE,
      baro_altitude |-> Some(300), hour |-> 23],
     [icao24 |-> <<"a", "1", "e">>, callsign |-> Some(<<"A", "A", "L", "1">>),
      on_ground |-> FALSE, baro_altitude |-> Some(900), hour |-> 12]}

InitMonitor ==
    /\ prog = "monitor"
    /\ pc = "start"
    /\ states = <<>> /\ aircraft = <<>> /\ fetched = "none"
    /\ month = 1
    /\ detection_files = NoFiles /\ alert_files = NoFiles
    /\ all_data = <<>>
    /\ IdleAnalysis /\ IdleHistory /\ runs = 0

\* lines 65-91 and 192: the request fails and the exception is caught
PollFails ==
    /\ prog = "monitor" /\ pc = "start"
    /\ fetched' = "error"
    /\ states' = <<>>
    /\ aircraft' = <<>>
    /\ pc' = "fetched"
    /\ UNCHANGED <<prog, analysisVars, month, detection_files, alert_files,
                   historyVars, runs>>

\* lines 65-91 and 192: the request succeeds with n state vectors
PollAnswers ==
    /\ prog = "monitor" /\ pc = "start"
    /\ \E n \in 0..MaxAircraft : \E sts \in [1..n -> PollCatalog] :
          /\ states' = sts
          /\ aircraft' = IF sts # <<>> THEN parse_aircraft_data(sts) ELSE <<>>
    /\ fetched' = "ok"
    /\ pc' = "fetched"
    /\ UNCHANGED <<prog, analysisVars, month, detection_files, alert_files,
                   historyVars, runs>>

\* lines 130-158
save_detections ==
    /\ prog = "monitor" /\ pc = "fetched"
    /\ detection_files' =
          [detection_files EXCEPT ![month] = Extended(@, aircraft)]
    /\ pc' = "detections_saved"
    /\ UNCHANGED <<prog, analysisVars, states, aircraft, fetched, month, alert_files,
                   historyVars, runs>>

\* lines 160-184
save_alerts ==
    /\ prog = "monitor" /\ pc = "detections_saved"
    /\ LET alerts == SelectSeq(aircraft, LAMBDA a : a.is_alert)
       IN  alert_files' =
              IF alerts = <<>> THEN alert_files
              ELSE [alert_files EXCEPT ![month] = Extended(@, alerts)]
    /\ pc' = "done"
    /\ UNCHANGED <<prog, analysisVars, states, aircraft, fetched, month,
                   detection_files, historyVars, runs>>

\* the calendar month changes while the script runs or between two runs
MonthPasses ==
    /\ prog = "monitor"
    /\ month < MaxMonth
    /\ month' = month + 1
    /\ UNCHANGED <<prog, pc, analysisVars, states, aircraft, fetched,
                   detection_files, alert_files, historyVars, runs>>

\* the script is started again; the files are what the last run left
MonitorAgain ==
    /\ prog = "monitor" /\ pc = "done"
    /\ runs + 1 < MaxRuns
    /\ runs' = runs + 1
    /\ pc' = "start"
    /\ states' = <<>> /\ aircraft' = <<>> /\ fetched' = "none"
    /\ UNCHANGED <<prog, analysisVars, month, detection_files, alert_files,
                   historyVars>>

\* ---- fetch_historical_data.py -------------------------------------------
HourStamp(m, h) == ((m - 1) * HOURS_PER_MONTH + h) * SECONDS_PER_HOUR

\* lines 20-27, current and end_date counted in hours of the month m
RECURSIVE HoursLoop(_, _, _, _)
HoursLoop(m, current, end_date, timestamps) ==
    IF current <= end_date
    THEN HoursLoop(m, current + 1, end_date, Append(timestamps, HourStamp(m, current)))
    ELSE timestamps

get_hour_timestamps(start_date, end_date) ==
    HoursLoop(start_date.month, start_date.hour, end_date, <<>>)

\* the rows one hour's query may return
RowCatalog ==
    {[icao24 |-> <<"a", "e", "0", "1">>, callsign |-> None, onground |-> FALSE,
      baroaltitude |-> Some(300)],
     [icao24 |-> <<"a", "1", "e">>, callsign |-> Some(<<"A", "A", "L", "1", " ">>),
      onground |-> TRUE, baroaltitude |-> Some(0)]}

\* lines 71-90 for one row; the fields copied through unread are left out
RowRecord(row, hour_timestamp) ==
    [icao24         |-> row.icao24,
     callsign       |-> IF TruthyStr(row.callsign) THEN strip(row.callsign[1])
                        ELSE <<"U", "n", "k", "n", "o", "w", "n">>,
     on_ground      |-> row.onground,
     baroaltitude_m |-> row.baroaltitude,
     hour_queried   |-> hour_timestamp]

InitHistory ==
    /\ prog = "history"
    /\ pc = "start"
    /\ \E m \in 1..MaxMonth, h \in 0..MaxHour : start = [month |-> m, hour |-> h]
    /\ end \in 0..MaxHour
    /\ hours = <<>> /\ hour_index = 0 /\ attempted = <<>>
    /\ historical_files = NoFiles
    /\ all_data = <<>>
    /\ IdleAnalysis /\ IdleMonitor /\ runs = 0

\* line 124
GetHours ==
    /\ prog = "history" /\ pc = "start"
    /\ hours' = get_hour_timestamps(start, end)
    /\ pc' = "connect"
    /\ UNCHANGED <<prog, analysisVars, monitorVars, start, end, hour_index,
                   attempted, historical_files, runs>>

\* line 127
Connect ==
    /\ prog = "history" /\ pc = "connect"
    /\ all_data' = <<>>
    /\ hour_index' = 0
    /\ pc' = "query"
    /\ UNCHANGED <<prog, aircraft_tracks, idx, track, continues_past,
                   potential_landings, potential_takeoffs, cur, monitorVars,
                   start, end, hours, attempted, historical_files, runs>>

\* line 127 raises: no handler encloses it, the script ends with a traceback
ConnectFails ==
    /\ prog = "history" /\ pc = "connect"
    /\ pc' = "crashed"
    /\ UNCHANGED <<prog, analysisVars, monitorVars, historyVars, runs>>

\* lines 130-135: the query of hours[i] returns n rows
QueryAnswers ==
    /\ prog = "history" /\ pc = "query"
    /\ hour_index < Len(hours)
    /\ \E n \in 0..1 : \E rows \in [1..n -> RowCatalog] :
          all_data' = all_data
                        \o [k \in 1..n |-> RowRecord(rows[k], hours[hour_index + 1])]
    /\ attempted' = Append(attempted, [hour |-> hours[hour_index + 1], outcome |-> "ok"])
    /\ hour_index' = hour_index + 1
    /\ UNCHANGED <<prog, pc, aircraft_tracks, idx, track, continues_past,
                   potential_landings, potential_takeoffs, cur, monitorVars,
                   start, end, hours, historical_files, runs>>

\* lines 130-137: the query of hours[i] raises and the exception is caught
QueryFails ==
    /\ prog = "history" /\ pc = "query"
    /\ hour_index < Len(hours)
    /\ attempted' = Append(attempted, [hour |-> hours[hour_index + 1], outcome |-> "error"])
    /\ hour_index' = hour_index + 1
    /\ UNCHANGED <<prog, pc, analysisVars, monitorVars, start, end, hours,
                   historical_files, runs>>

\* lines 139-142 and 92-112
save_historical_data ==
    /\ prog = "history" /\ pc = "query"
    /\ hour_index = Len(hours)
    /\ historical_files' =
          [historical_files EXCEPT ![start.month] = Extended(@, all_data)]
    /\ pc' = "done"
    /\ UNCHANGED <<prog, analysisVars, monitorVars, start, end, hours, hour_index,
                   attempted, runs>>

\* the script is started again with the same range
HistoryAgain ==
    /\ prog = "history" /\ pc = "done"
    /\ runs + 1 < MaxRuns
    /\ runs' = runs + 1
    /\ pc' = "start"
    /\ hours' = <<>> /\ hour_index' = 0 /\ attempted' = <<>>
    /\ all_data' = <<>>
    /\ UNCHANGED <<prog, aircraft_tracks, idx, track, continues_past,
                   potential_landings, potential_takeoffs, cur, monitorVars,
                   start, end, historical_files>>

Init == InitMonitor \/ InitHistory

Next ==
    \/ PollFails \/ PollAnswers \/ save_detections \/ save_alerts
    \/ MonthPasses \/ MonitorAgain
    \/ GetHours \/ Connect \/ ConnectFails \/ QueryAnswers \/ QueryFails
    \/ save_historical_data \/ HistoryAgain

Spec == Init /\ [][Next]_vars

(***************************************************************************)
(* Properties of the runs (under Spec)                                     *)
(***************************************************************************)
\* the array a log file stands for: a missing file is the empty array
Stored(file) == IF file.exists THEN file.data ELSE <<>>

IsPrefix(s1, s2) == Len(s1) <= Len(s2) /\ SubSeq(s2, 1, Len(s1)) = s1

\* what one step may do to the files of one directory
Kept(old, new) ==
    \A m \in 1..MaxMonth :
        /\ old[m].exists => new[m].exists
        /\ IsPrefix(Stored(old[m]), Stored(new[m]))

\* the file of month m gets `records` appended, every other file stays
AppendedTo(old, new, m, records) ==
    /\ new[m].exists
    /\ Stored(new[m]) = Stored(old[m]) \o records
    /\ \A o \in 1..MaxMonth : o # m => new[o] = old[o]

C9_Step ==
    /\ Kept(detection_files, detection_files')
    /\ Kept(alert_files, alert_files')
    /\ Kept(historical_files, historical_files')
    /\ IF prog = "monitor" /\ pc = "fetched" /\ pc' = "detections_saved"
       THEN AppendedTo(detection_files, detection_files', month, aircraft)
       ELSE detection_files' = detection_files
    /\ IF /\ prog = "monitor" /\ pc = "detections_saved" /\ pc' = "done"
          /\ \E k \in 1..Len(aircraft) : aircraft[k].is_alert
       THEN AppendedTo(alert_files, alert_files', month,
                       SelectSeq(aircraft, LAMBDA a : a.is_alert = TRUE))
       ELSE alert_files' = alert_files
    /\ IF prog = "history" /\ pc = "query" /\ pc' = "done"
       THEN AppendedTo(historical_files, historical_files', start.month, all_data)
       ELSE historical_files' = historical_files

\* C9: the monthly log files are append-only: after save_detections,
\* save_alerts or save_historical_data the file's array is its array before
\* the call followed by the records passed, in order (save_alerts passes
\* the records with is_alert true and touches nothing when there are
\* none); a missing file counts as the empty array; no other step changes
\* a file, and no stored record is removed, reordered or modified.
C9_AppendOnly == [][C9_Step]_vars

\* the same two records stored by two runs of the same month: appended twice
C9_Witness ==
    /\ prog = "monitor" /\ pc = "done" /\ runs = 1
    /\ Len(aircraft) = 2 /\ aircraft[1].is_alert /\ ~aircraft[2].is_alert
    /\ detection_files[1].data = aircraft \o aircraft
    /\ alert_files[1].data = <<aircraft[1], aircraft[1]>>

\* C10 as stated: no network or query failure ends a run: a failed live
\* request gives an empty aircraft list and the run goes on to the two
\* saves; a failed connection setup or a failed hour of the historical run
\* is caught, every hour of the range is attempted once in ascending
\* order, and the run goes on to save_historical_data.
C10_NoFailureFatal ==
    /\ pc # "crashed"
    /\ prog = "monitor" /\ fetched = "error" => aircraft = <<>>
    /\ prog = "history" /\ pc \in {"query", "done"} =>
          /\ Len(attempted) = hour_index
          /\ \A k \in 1..Len(attempted) : attempted[k].hour = hours[k]
          /\ \A k \in 2..Len(hours) : hours[k - 1] < hours[k]
    /\ prog = "history" /\ pc = "done" =>
          /\ Len(attempted) = Len(hours)
          /\ Len(hours) = IF end >= start.hour THEN end - start.hour + 1 ELSE 0
          /\ historical_files[start.month].exists

====
